---------------------------- MODULE Spec2Model ----------------------------
(***************************************************************************)
(* Model of index.js of the Astro Digital quick-start example: the driver  *)
(* that searches for the latest scene, checks its status in the processing *)
(* pipeline, publishes it when needed, re-checks on a timer and stores the *)
(* ready map id in latestImage.                                            *)
(*                                                                         *)
(* Node runs every callback to completion on one thread, so each callback  *)
(* (a response handler, a timer) is one atomic action.  The provider, the  *)
(* network and the clock are the environment: a response is any element of *)
(* a bounded set of responses, and an armed timer or the search interval   *)
(* may fire at any time.                                                   *)
(***************************************************************************)
EXTENDS Naturals, Sequences, FiniteSets, Bags

(***************************************************************************)
(* Bounds of the model.                                                    *)
(***************************************************************************)
\* search cycles started in one run (the first one plus the interval ticks)
MaxChains == 2
\* entries in the results array of a /scenes listing
MaxEntries == 2
\* entries in the results array of a /search response
MaxResults == 1
\* publish requests whose response has not arrived yet
MaxPublish == 1

(***************************************************************************)
(* Configuration and JavaScript values.                                    *)
(***************************************************************************)
method == "trueColor"
\* the source ships email = '' and exits at start-up until one is entered
\* (index.js:206-211); the model is of a configured program
email == "user@example.com"
null == "null"
undefined == "undefined"

\* process method codes a listing entry may carry
Codes == {method, "ndvi"}
\* map ids the provider hands out
MapIDs == {"m1", "m2"}
\* scene ids as the search returns them, a string being a sequence of
\* characters; some carry surrounding white space
RawSceneIDs == { <<"A">>, <<" ", "A">>, <<"B", " ">> }

RECURSIVE TrimLeft(_)
TrimLeft(s) == IF s # <<>> /\ Head(s) = " " THEN TrimLeft(Tail(s)) ELSE s

RECURSIVE TrimRight(_)
TrimRight(s) ==
  IF s # <<>> /\ s[Len(s)] = " " THEN TrimRight(SubSeq(s, 1, Len(s) - 1)) ELSE s

\* String.prototype.trim
trim(s) == TrimRight(TrimLeft(s))

\* sequences over S of length at most n
SeqUpTo(S, n) == UNION { [1..k -> S] : k \in 0..n }

(***************************************************************************)
(* Responses of the provider, as request() hands them to its callback:     *)
(* (err, res, body).  statusCode 0 stands for the absent res of a network  *)
(* error.  The code reads the body of a success response only; a failed    *)
(* response carries an empty one.                                          *)
(***************************************************************************)
NetworkError(body) == [err |-> "ECONNRESET", statusCode |-> 0, body |-> body]
NonSuccess(body) == [err |-> null, statusCode |-> 500, body |-> body]
Success(body) == [err |-> null, statusCode |-> 200, body |-> body]

\* /search bodies: { results: [{ sceneID }, ...] }
SearchBodies == { [results |-> r] : r \in SeqUpTo(RawSceneIDs, MaxResults) }
NoResults == [results |-> <<>>]
SearchResponses ==
  {NetworkError(NoResults), NonSuccess(NoResults)}
  \cup { Success(b) : b \in SearchBodies }

\* /scenes entries: { process_method: { code }, ready, map_id }
Entries ==
  { [code |-> c, ready |-> FALSE, map_id |-> null] : c \in Codes }
  \cup { [code |-> c, ready |-> TRUE, map_id |-> m] : c \in Codes, m \in MapIDs }

\* /scenes bodies: { count, results }; count is a field of its own
Listings ==
  { [count |-> n, results |-> r] :
      n \in 0..(MaxEntries + 1), r \in SeqUpTo(Entries, MaxEntries) }
NoListing == [count |-> 0, results |-> <<>>]
StatusResponses ==
  {NetworkError(NoListing), NonSuccess(NoListing)}
  \cup { Success(b) : b \in Listings }
PublishResponses == {NetworkError(""), NonSuccess(""), Success("")}

\* a scene id that is null (no string is this sequence: a string's elements
\* are single characters)
nullID == <<null>>

\* the outcome of a request callback that throws instead of calling back:
\* the exception is uncaught
TypeError ==
  [thrown |-> TRUE, err |-> null, status |-> null, mapID |-> null,
   sceneID |-> nullID]
\* the arguments a request callback calls back with
Call(err, status, mapID, sceneID) ==
  [thrown |-> FALSE, err |-> err, status |-> status, mapID |-> mapID,
   sceneID |-> sceneID]
NoArgs == Call(null, null, null, nullID)

(***************************************************************************)
(* runSearchRequest: the arguments (err, sceneID) its request callback     *)
(* passes to `callback` (status and mapID stay null), or TypeError when    *)
(* results[0] is undefined.                                                *)
(***************************************************************************)
NoMatchMessage == "Looks like we were unable to find any matches for your search."

runSearchRequest(resp) ==
  IF resp.err # null \/ resp.statusCode # 200
  THEN Call(IF resp.err # null THEN resp.err ELSE NoMatchMessage, null, null,
            nullID)
  ELSE IF Len(resp.body.results) = 0
       THEN TypeError
       ELSE Call(null, null, null, trim(resp.body.results[1]))

(***************************************************************************)
(* getSceneStatus: the arguments (err, status, mapID, sceneID) its request *)
(* callback passes to `callback`, or TypeError when the scan reads past    *)
(* the end of results.  ScanResults is the for loop from index i (1-based).*)
(***************************************************************************)
\* variant: the REQUESTED call back leaves out its sceneID argument
RECURSIVE ScanResults_dropsSceneID(_, _, _)
ScanResults_dropsSceneID(data, i, sceneID) ==
  IF i > data.count
  THEN Call(null, "NOT_YET_REQUESTED", null, sceneID)
  ELSE IF i > Len(data.results)
       THEN TypeError
       ELSE IF data.results[i].code = method
            THEN IF data.results[i].ready
                 THEN Call(null, "READY", data.results[i].map_id, sceneID)
                 ELSE Call(null, "REQUESTED", null, nullID)
            ELSE ScanResults_dropsSceneID(data, i + 1, sceneID)

\* variant: the loop runs over results.length instead of data.count
RECURSIVE ScanResults_length(_, _, _)
ScanResults_length(data, i, sceneID) ==
  IF i > Len(data.results)
  THEN Call(null, "NOT_YET_REQUESTED", null, sceneID)
  ELSE IF data.results[i].code = method
       THEN IF data.results[i].ready
            THEN Call(null, "READY", data.results[i].map_id, sceneID)
            ELSE Call(null, "REQUESTED", null, sceneID)
       ELSE ScanResults_length(data, i + 1, sceneID)

\* variant: a match that is not ready does not end the loop
RECURSIVE ScanResults_skipsNotReady(_, _, _)
ScanResults_skipsNotReady(data, i, sceneID) ==
  IF i > data.count
  THEN Call(null, "NOT_YET_REQUESTED", null, sceneID)
  ELSE IF i > Len(data.results)
       THEN TypeError
       ELSE IF data.results[i].code = method /\ data.results[i].ready
            THEN Call(null, "READY", data.results[i].map_id, sceneID)
            ELSE ScanResults_skipsNotReady(data, i + 1, sceneID)

RECURSIVE ScanResults(_, _, _)
ScanResults(data, i, sceneID) ==
  IF i > data.count
  THEN Call(null, "NOT_YET_REQUESTED", null, sceneID)
  ELSE IF i > Len(data.results)
       THEN TypeError
       ELSE IF data.results[i].code = method
            THEN IF data.results[i].ready
                 THEN Call(null, "READY", data.results[i].map_id, sceneID)
                 ELSE Call(null, "REQUESTED", null, sceneID)
            ELSE ScanResults(data, i + 1, sceneID)

getSceneStatus(sceneID, resp) ==
  IF resp.err # null \/ resp.statusCode # 200
  THEN Call(resp.err, null, null, nullID)
  ELSE ScanResults(resp.body, 1, sceneID)

\* the scene ids a search can return
SceneIDs == { trim(r) : r \in RawSceneIDs }
\* every outcome of a status request, per scene id asked for
StatusOutcomes ==
  [s \in SceneIDs \cup {nullID} |->
     { getSceneStatus(s, resp) : resp \in StatusResponses }]

(***************************************************************************)
(* What a callback does, as a record of effects: the console lines it      *)
(* writes, the value it assigns to latestImage (if any), the scene ids it  *)
(* publishes, the scene ids it arms a re-check timer for and the status    *)
(* requests it issues.                                                     *)
(***************************************************************************)
NoEffect ==
  [log |-> <<>>, assign |-> <<>>, publish |-> <<>>, timers |-> <<>>,
   checks |-> <<>>]

\* variant: the form's fields are filled in the wrong order
publishScene_swapped(sceneID) ==
  [satellite |-> "l8", sceneID |-> sceneID, email |-> method, process |-> email]

\* publishScene: the form it posts
publishScene(sceneID) ==
  [satellite |-> "l8", sceneID |-> sceneID, email |-> email, process |-> method]

\* the console.info at the head of handleSceneStatus
Checked == <<"info: Just checked on the status">>

\* variant: READY also checks back later
caseReady_rearms(sceneID, mapID) ==
  [NoEffect EXCEPT !.log = Checked, !.assign = <<mapID>>, !.timers = <<sceneID>>]

\* variant: the map id kept is chosen by the scene, not taken from the listing
caseReady_perScene(sceneID, mapID) ==
  [NoEffect EXCEPT !.log = Checked,
                   !.assign = <<IF sceneID = <<"A">> THEN "m1" ELSE "m2">>]

\* case 'READY': save the map id
caseReady(sceneID, mapID) ==
  [NoEffect EXCEPT !.log = Checked, !.assign = <<mapID>>]

\* variant: REQUESTED stores the (absent) map id before checking back
caseRequested_assigns(sceneID) ==
  [NoEffect EXCEPT !.log = Checked, !.assign = <<null>>, !.timers = <<sceneID>>]

\* variant: REQUESTED lacks its return and falls through into the next case
caseRequested_fallsThrough(sceneID) ==
  [NoEffect EXCEPT !.log = Checked, !.publish = <<publishScene(sceneID)>>,
                   !.timers = <<sceneID, sceneID>>]

\* case 'REQUESTED': check back later
caseRequested(sceneID) ==
  [NoEffect EXCEPT !.log = Checked, !.timers = <<sceneID>>]

\* case 'NOT_YET_REQUESTED': publish, then check back later
caseNotYetRequested(sceneID) ==
  [NoEffect EXCEPT !.log = Checked, !.publish = <<publishScene(sceneID)>>,
                   !.timers = <<sceneID>>]

\* variant: an unknown status is treated like REQUESTED and checked again
caseDefault_rechecks ==
  [NoEffect EXCEPT !.log = Checked \o <<"error: Unhandled scene status">>,
                   !.timers = <<nullID>>]

\* default
caseDefault ==
  [NoEffect EXCEPT !.log = Checked \o <<"error: Unhandled scene status">>]

handleSceneStatus(sceneID, status, mapID) ==
  CASE status = "READY" -> caseReady(sceneID, mapID)
    [] status = "REQUESTED" -> caseRequested(sceneID)
    [] status = "NOT_YET_REQUESTED" -> caseNotYetRequested(sceneID)
    [] OTHER -> caseDefault

\* variant: the arguments of handleSceneStatus slip by one
statusCallback_slips(err, status, mapID, sceneID) ==
  IF err # null
  THEN [NoEffect EXCEPT !.log = <<"error: err">>]
  ELSE handleSceneStatus(sceneID, status, status)

\* variant: the scene id is not taken from the arguments of the callback
statusCallback_dropsSceneID(err, status, mapID, sceneID) ==
  IF err # null
  THEN [NoEffect EXCEPT !.log = <<"error: err">>]
  ELSE handleSceneStatus(nullID, status, mapID)

statusCallback(err, status, mapID, sceneID) ==
  IF err # null
  THEN [NoEffect EXCEPT !.log = <<"error: err">>]
  ELSE handleSceneStatus(sceneID, status, mapID)

\* the anonymous callback handleSearchResult passes to getSceneStatus; its
\* sceneID is the one of the enclosing call
searchStatusCallback(sceneID, err, status, mapID) ==
  IF err # null
  THEN [NoEffect EXCEPT !.log = <<"error: err">>]
  ELSE handleSceneStatus(sceneID, status, mapID)

\* variant: the error branch lacks its return
handleSearchResult_noReturn(err, sceneID) ==
  [NoEffect EXCEPT !.log = IF err # null THEN <<"error: err">> ELSE <<>>,
                   !.checks = <<[sceneID |-> sceneID, cb |-> "search"]>>]

handleSearchResult(err, sceneID) ==
  IF err # null
  THEN [NoEffect EXCEPT !.log = <<"error: err">>]
  ELSE [NoEffect EXCEPT !.checks = <<[sceneID |-> sceneID, cb |-> "search"]>>]

\* variant: the re-check is armed with setInterval, so it stays armed
recheck_interval(sceneID) ==
  [NoEffect EXCEPT !.checks = <<[sceneID |-> sceneID, cb |-> "statusCallback"]>>,
                   !.timers = <<sceneID>>]

\* the function a re-check timer runs
recheck(sceneID) ==
  [NoEffect EXCEPT !.checks = <<[sceneID |-> sceneID, cb |-> "statusCallback"]>>]

(***************************************************************************)
(* State.                                                                  *)
(*   running      the Node process is alive (no uncaught exception yet)    *)
(*   latestImage  the variable of that name                                *)
(*   requests     bag of HTTP requests whose callback has not run yet      *)
(*   timers       bag of armed setTimeout re-checks                        *)
(*   chains       one record per search cycle started, in order: the scene *)
(*                id its search returned, the map id of the READY status   *)
(*                it observed, whether it has published (bookkeeping of    *)
(*                the model; requests and timers carry the chain's index)  *)
(*   last         the callback that ran in the last step: what it was      *)
(*                handed and what it did (for a page request, args.mapID   *)
(*                is the value of latestImage the page was rendered with)  *)
(*   probe        a single call of getSceneStatus on a chosen response     *)
(***************************************************************************)
VARIABLES running, latestImage, requests, timers, chains, last, probe

vars == <<running, latestImage, requests, timers, chains, last, probe>>

NewChain == [scene |-> nullID, ready |-> null, published |-> FALSE]

SearchRequest(c) == [kind |-> "search", chain |-> c]
StatusRequest(c, check) ==
  [kind |-> "status", chain |-> c, sceneID |-> check.sceneID, cb |-> check.cb]
PublishRequest(c, form) == [kind |-> "publish", chain |-> c, formData |-> form]
Timer(c, sceneID) == [chain |-> c, sceneID |-> sceneID]

RECURSIVE BagOfSeq(_)
BagOfSeq(s) ==
  IF s = <<>> THEN EmptyBag ELSE SetToBag({Head(s)}) (+) BagOfSeq(Tail(s))

\* the requests and the timers a callback of chain c leaves behind
Issued(c, eff) ==
  BagOfSeq([i \in 1..Len(eff.checks) |-> StatusRequest(c, eff.checks[i])])
  (+) BagOfSeq([i \in 1..Len(eff.publish) |-> PublishRequest(c, eff.publish[i])])
Armed(c, eff) ==
  BagOfSeq([i \in 1..Len(eff.timers) |-> Timer(c, eff.timers[i])])

Pending(kind) == { r \in BagToSet(requests) : r.kind = kind }
PublishInFlight ==
  BagCardinality([r \in Pending("publish") |-> requests[r]])

Idle ==
  [sceneID |-> nullID, resp |-> NonSuccess(NoListing), called |-> TRUE,
   out |-> NoArgs]
\* what `last` keeps of a response: the error, the status code and the number
\* of results of a search
Handed(resp, n) == [err |-> resp.err, statusCode |-> resp.statusCode, results |-> n]
NoResponse == Handed(NonSuccess(""), 0)

Init ==
  /\ running = TRUE
  /\ latestImage = undefined
  /\ requests = SetToBag({SearchRequest(1)})
  /\ timers = EmptyBag
  /\ chains = <<NewChain>>
  /\ last = [op |-> "start", chain |-> 1, resp |-> NoResponse, args |-> NoArgs,
             eff |-> NoEffect]
  /\ probe = Idle

\* a callback of chain c took req (a request or a timer) and ran to its end
Ran(c, op, resp, args, eff) ==
  /\ latestImage' = IF eff.assign # <<>> THEN eff.assign[1] ELSE latestImage
  /\ last' = [op |-> op, chain |-> c, resp |-> resp, args |-> args, eff |-> eff]
  /\ UNCHANGED <<running, probe>>

\* a callback of chain c threw: the exception is uncaught, the process dies
\* and with it every pending callback
Threw(c, op, resp) ==
  /\ running' = FALSE
  /\ requests' = EmptyBag
  /\ timers' = EmptyBag
  /\ last' = [op |-> op, chain |-> c, resp |-> resp, args |-> TypeError,
              eff |-> NoEffect]
  /\ UNCHANGED <<latestImage, chains, probe>>

\* variant: a new cycle replaces the polls of the earlier ones
SearchTick_replaces ==
  /\ running
  /\ Len(chains) < MaxChains
  /\ chains' = Append(chains, NewChain)
  /\ requests' = SetToBag({SearchRequest(Len(chains) + 1)})
  /\ timers' = EmptyBag
  /\ last' = [op |-> "setInterval", chain |-> Len(chains) + 1,
              resp |-> NoResponse, args |-> NoArgs, eff |-> NoEffect]
  /\ UNCHANGED <<running, latestImage, probe>>

\* setInterval(function () { runSearchRequest(handleSearchResult) })
SearchTick ==
  /\ running
  /\ Len(chains) < MaxChains
  /\ chains' = Append(chains, NewChain)
  /\ requests' = requests (+) SetToBag({SearchRequest(Len(chains) + 1)})
  /\ last' = [op |-> "setInterval", chain |-> Len(chains) + 1, resp |-> NoResponse,
              args |-> NoArgs, eff |-> NoEffect]
  /\ UNCHANGED <<running, latestImage, timers, probe>>

\* the callback of runSearchRequest's request, calling handleSearchResult
SearchResponse ==
  /\ running
  /\ \E req \in Pending("search"), resp \in SearchResponses :
       LET args == runSearchRequest(resp) IN
       IF args.thrown
       THEN Threw(req.chain, "runSearchRequest",
                  Handed(resp, Len(resp.body.results)))
       ELSE LET eff == handleSearchResult(args.err, args.sceneID) IN
            /\ Ran(req.chain, "runSearchRequest",
                   Handed(resp, Len(resp.body.results)), args, eff)
            /\ requests' = (requests (-) SetToBag({req})) (+) Issued(req.chain, eff)
            /\ timers' = timers (+) Armed(req.chain, eff)
            /\ chains' = [chains EXCEPT ![req.chain].scene = args.sceneID]

\* the callback of getSceneStatus's request, calling statusCallback or the
\* callback of handleSearchResult
StatusResponse ==
  /\ running
  /\ \E req \in Pending("status") :
       \E args \in StatusOutcomes[req.sceneID] :
         IF args.thrown
         THEN Threw(req.chain, "getSceneStatus", NoResponse)
         ELSE LET eff == IF req.cb = "statusCallback"
                         THEN statusCallback(args.err, args.status, args.mapID,
                                             args.sceneID)
                         ELSE searchStatusCallback(req.sceneID, args.err,
                                                   args.status, args.mapID)
              IN
              \* bound: at most MaxPublish publish responses are outstanding
              /\ PublishInFlight + Len(eff.publish) <= MaxPublish
              /\ Ran(req.chain, "getSceneStatus", NoResponse, args, eff)
              /\ requests' = (requests (-) SetToBag({req})) (+) Issued(req.chain, eff)
              /\ timers' = timers (+) Armed(req.chain, eff)
              /\ chains' =
                   [chains EXCEPT
                      ![req.chain].ready =
                         IF args.status = "READY" THEN args.mapID ELSE @,
                      ![req.chain].published = @ \/ eff.publish # <<>>]

\* a re-check timer fires: getSceneStatus(sceneID, statusCallback)
TimerFires ==
  /\ running
  /\ \E t \in BagToSet(timers) :
       LET eff == recheck(t.sceneID) IN
       /\ Ran(t.chain, "setTimeout", NoResponse, NoArgs, eff)
       /\ timers' = (timers (-) SetToBag({t})) (+) Armed(t.chain, eff)
       /\ requests' = requests (+) Issued(t.chain, eff)
       /\ UNCHANGED chains

\* variant: a failed publish is retried by checking again at once
publishCallback_rechecks(resp) ==
  IF resp.err # null \/ resp.statusCode # 200
  THEN [NoEffect EXCEPT !.log = <<"error: Received a non-200 status code.">>,
                        !.checks = <<[sceneID |-> nullID, cb |-> "statusCallback"]>>]
  ELSE [NoEffect EXCEPT !.log = <<"info: Image successfully queued for publishing.">>]

\* the callback of publishScene's request: it only writes to the console
publishCallback(resp) ==
  IF resp.err # null \/ resp.statusCode # 200
  THEN [NoEffect EXCEPT !.log = <<"error: Received a non-200 status code.">>]
  ELSE [NoEffect EXCEPT !.log = <<"info: Image successfully queued for publishing.">>]

PublishResponse ==
  /\ running
  /\ \E req \in Pending("publish"), resp \in PublishResponses :
       LET eff == publishCallback(resp) IN
       /\ Ran(req.chain, "publishScene", Handed(resp, 0), NoArgs, eff)
       /\ requests' = (requests (-) SetToBag({req})) (+) Issued(req.chain, eff)
       /\ timers' = timers (+) Armed(req.chain, eff)
       /\ UNCHANGED chains

\* variant: rendering the page consumes the image
PageRequest_consumes ==
  /\ running
  /\ latestImage' = undefined
  /\ last' = [op |-> "app.get", chain |-> 0, resp |-> NoResponse,
              args |-> Call(null, null, latestImage, nullID),
              eff |-> [NoEffect EXCEPT !.log = <<"info: Page reload requested">>]]
  /\ UNCHANGED <<running, requests, timers, chains, probe>>

\* app.get('/'): the page is rendered with context.sceneID = latestImage and
\* the value is logged; latestImage is only read
PageRequest ==
  /\ running
  /\ last' = [op |-> "app.get", chain |-> 0, resp |-> NoResponse,
              args |-> Call(null, null, latestImage, nullID),
              eff |-> [NoEffect EXCEPT !.log = <<"info: Page reload requested">>]]
  /\ UNCHANGED <<running, latestImage, requests, timers, chains, probe>>

Next ==
  \/ SearchTick
  \/ SearchResponse
  \/ StatusResponse
  \/ TimerFires
  \/ PublishResponse
  \/ PageRequest

Spec == Init /\ [][Next]_vars

(***************************************************************************)
(* The program with its scheduling: node's event loop runs the callback of *)
(* every response that arrives and of every timer that expires, so each    *)
(* chain's pending response is eventually delivered and each armed timer   *)
(* eventually fires.                                                       *)
(***************************************************************************)
Delivered(c) ==
  /\ SearchResponse \/ StatusResponse \/ PublishResponse
  /\ last'.chain = c
Fired(c) == TimerFires /\ last'.chain = c

Fairness == \A c \in 1..MaxChains : WF_vars(Delivered(c)) /\ WF_vars(Fired(c))

SpecFair == Init /\ [][Next]_vars /\ Fairness

(***************************************************************************)
(* getSceneStatus on its own: one call on any scene id and any response.   *)
(***************************************************************************)
InitStatus ==
  /\ running = TRUE
  /\ latestImage = undefined
  /\ requests = EmptyBag
  /\ timers = EmptyBag
  /\ chains = <<>>
  /\ last = [op |-> "start", chain |-> 0, resp |-> NoResponse, args |-> NoArgs,
             eff |-> NoEffect]
  /\ probe \in { [sceneID |-> s, resp |-> r, called |-> FALSE, out |-> NoArgs] :
                    s \in SceneIDs, r \in StatusResponses }

CallGetSceneStatus ==
  /\ ~probe.called
  /\ probe' = [probe EXCEPT !.called = TRUE,
                            !.out = getSceneStatus(probe.sceneID, probe.resp)]
  /\ UNCHANGED <<running, latestImage, requests, timers, chains, last>>

NextStatus == CallGetSceneStatus

SpecStatus == InitStatus /\ [][NextStatus]_vars

(***************************************************************************)
(* The program against a provider whose pipeline listing does not change:  *)
(* every status check is answered with the same success response.          *)
(* probe.out is what getSceneStatus makes of that listing; the scene id it *)
(* calls back with is the one it was called with.                          *)
(***************************************************************************)
InitFrozen ==
  /\ running = TRUE
  /\ latestImage = undefined
  /\ requests = SetToBag({SearchRequest(1)})
  /\ timers = EmptyBag
  /\ chains = <<NewChain>>
  /\ last = [op |-> "start", chain |-> 1, resp |-> NoResponse, args |-> NoArgs,
             eff |-> NoEffect]
  /\ probe \in { [Idle EXCEPT !.out = getSceneStatus(nullID, Success(b))] :
                    b \in Listings }

\* StatusResponse answered from the frozen listing
FrozenStatusResponse ==
  /\ StatusResponse
  /\ \E req \in Pending("status") :
       /\ req.chain = last'.chain
       /\ last'.args = IF probe.out.thrown
                       THEN TypeError
                       ELSE [probe.out EXCEPT !.sceneID = req.sceneID]

NextFrozen ==
  \/ SearchTick
  \/ SearchResponse
  \/ FrozenStatusResponse
  \/ TimerFires
  \/ PublishResponse
  \/ PageRequest

SpecFrozen == InitFrozen /\ [][NextFrozen]_vars

(***************************************************************************)
(* State functions the properties use.                                     *)
(***************************************************************************)
\* requests of a kind, and timers, that chain c has outstanding
InFlight(c, kind) ==
  LET S == { r \in Pending(kind) : r.chain = c } IN
  BagCardinality([r \in S |-> requests[r]])
TimersOf(c) ==
  LET S == { t \in BagToSet(timers) : t.chain = c } IN
  BagCardinality([t \in S |-> timers[t]])
Outstanding(c) == InFlight(c, "search") + InFlight(c, "status") + TimersOf(c)

\* the last step handled a status response (the request callback did not throw)
Handled(status) ==
  /\ last.op = "getSceneStatus"
  /\ ~last.args.thrown
  /\ last.args.status = status

(***************************************************************************)
(* C3.  As claimed: for every listing returned with a success response     *)
(* getSceneStatus yields READY, with that entry's map_id, when an entry    *)
(* with the configured method code is marked ready, REQUESTED when such an *)
(* entry exists but none is ready, NOT_YET_REQUESTED when no entry has the *)
(* configured method code, and nothing else.                               *)
(***************************************************************************)
Matching(results) == { i \in 1..Len(results) : results[i].code = method }

C1_OnlyReadyWritesLatestImage ==
  [][ (last'.op = "getSceneStatus" /\ last'.args.status # "READY")
        => latestImage' = latestImage ]_vars

\* a status other than READY was handled while latestImage held a map id
C1_Witness ==
  /\ last.op = "getSceneStatus"
  /\ last.args.status \in {"REQUESTED", "NOT_YET_REQUESTED"}
  /\ latestImage \in MapIDs

(***************************************************************************)
(* C2.  Handling REQUESTED or NOT_YET_REQUESTED arms exactly one re-check  *)
(* timer for the chain and handling READY arms none; and a chain that has  *)
(* observed READY has no status check and no timer outstanding and issues  *)
(* no further publish.                                                     *)
(***************************************************************************)
C2_OneRecheckUntilReady ==
  [][ /\ \A c \in 1..Len(chains) :
           (last'.op = "getSceneStatus" /\ last'.chain = c /\ ~last'.args.thrown) =>
             /\ last'.args.status \in {"REQUESTED", "NOT_YET_REQUESTED"}
                  => TimersOf(c)' = TimersOf(c) + 1
             /\ last'.args.status = "READY" => TimersOf(c)' = TimersOf(c)
      /\ \A c \in 1..Len(chains) :
           chains'[c].ready # null =>
             /\ InFlight(c, "status")' = 0
             /\ TimersOf(c)' = 0
             /\ chains[c].ready # null
                  => InFlight(c, "publish")' <= InFlight(c, "publish") ]_vars

\* a chain that published and re-checked has now observed READY
C2_Witness ==
  /\ Handled("READY")
  /\ chains[last.chain].published
  /\ chains[last.chain].ready \in MapIDs
  /\ Outstanding(last.chain) = 0

(***************************************************************************)
(* C4.  When the first status check of a cycle whose search returned scene *)
(* S finds no entry for the configured method, one publish is posted with  *)
(* S and the configured method and one re-check is armed for S; and when a *)
(* chain that has published is handed READY with map id M, latestImage is  *)
(* M after that step.                                                      *)
(***************************************************************************)
\* the step consumed the status request handleSearchResult issued for chain c
FirstCheckAnswered(c) ==
  LET req == StatusRequest(c, [sceneID |-> chains[c].scene, cb |-> "search"]) IN
  /\ BagIn(req, requests)
  /\ CopiesIn(req, requests') < CopiesIn(req, requests)

C4_PublishThenReadyIsCached ==
  [][ \A c \in 1..Len(chains) :
        (last'.op = "getSceneStatus" /\ last'.chain = c /\ ~last'.args.thrown) =>
          /\ (FirstCheckAnswered(c) /\ last'.args.status = "NOT_YET_REQUESTED") =>
               LET S == chains[c].scene
                   form == [satellite |-> "l8", sceneID |-> S, email |-> email,
                            process |-> method]
               IN
               /\ S \in SceneIDs
               /\ requests' =
                    (requests (-) SetToBag({StatusRequest(c, [sceneID |-> S,
                                                             cb |-> "search"])}))
                    (+) SetToBag({PublishRequest(c, form)})
               /\ timers' = timers (+) SetToBag({Timer(c, S)})
          /\ (chains[c].published /\ last'.args.status = "READY") =>
               latestImage' = last'.args.mapID ]_vars

\* a chain that published was later handed READY, and latestImage is its map id
C4_Witness ==
  /\ Handled("READY")
  /\ chains[last.chain].published
  /\ last.args.mapID \in MapIDs
  /\ latestImage = last.args.mapID

(***************************************************************************)
(* C5.  As claimed: after a search response that is a success with zero    *)
(* results the process is still running, an error has been logged, and no  *)
(* status check, publish or write of latestImage was made.                 *)
(***************************************************************************)
EmptySearchHandled ==
  /\ last.op = "runSearchRequest"
  /\ last.resp.err = null
  /\ last.resp.statusCode = 200
  /\ last.resp.results = 0

C5_EmptySearchIsLoggedNoMatch ==
  EmptySearchHandled =>
    /\ running
    /\ last.eff.log = <<"error: err">>
    /\ last.args.err = NoMatchMessage
    /\ last.eff.checks = <<>>
    /\ last.eff.publish = <<>>
    /\ last.eff.assign = <<>>

(***************************************************************************)
(* C6.  When a search fails with a network error or a non-success          *)
(* response, handleSearchResult logs the error and the cycle ends: the     *)
(* step only removes the search request (no status check, no publish), no  *)
(* timer is armed, latestImage is unchanged and the chain has nothing      *)
(* outstanding.                                                            *)
(***************************************************************************)
C6_FailedSearchEndsCycle ==
  [][ (/\ last'.op = "runSearchRequest"
       /\ (last'.resp.err # null \/ last'.resp.statusCode # 200)) =>
        /\ last'.args.err # null
        /\ last'.eff.log = <<"error: err">>
        /\ requests' = requests (-) SetToBag({SearchRequest(last'.chain)})
        /\ timers' = timers
        /\ latestImage' = latestImage
        /\ \A c \in 1..Len(chains) : last'.chain = c => Outstanding(c)' = 0
        /\ running' ]_vars

\* a search failed while another chain was polling and a map id was cached
C6_Witness ==
  /\ last.op = "runSearchRequest"
  /\ last.resp.err # null \/ last.resp.statusCode # 200
  /\ Outstanding(last.chain) = 0
  /\ latestImage \in MapIDs

(***************************************************************************)
(* C7.  Chains of successive search cycles poll independently, also for    *)
(* the same scene id: a search that returns a scene id gets its own status *)
(* check whatever the other chains are doing, a callback that runs for one *)
(* chain leaves the requests and timers of every other chain as they were, *)
(* and whenever READY is handled, for whichever chain, latestImage becomes *)
(* the map id of that response: the READY handled last decides.            *)
(***************************************************************************)
C7_LastReadyHandledWins ==
  [][ \A c \in 1..Len(chains') :
        (last'.chain = c /\ last'.op # "start" /\ ~last'.args.thrown) =>
          /\ \A d \in (1..Len(chains)) \ {c} :
               /\ InFlight(d, "search")' = InFlight(d, "search")
               /\ InFlight(d, "status")' = InFlight(d, "status")
               /\ InFlight(d, "publish")' = InFlight(d, "publish")
               /\ TimersOf(d)' = TimersOf(d)
          /\ (last'.op = "runSearchRequest" /\ last'.args.err = null) =>
               /\ InFlight(c, "status")' = 1
               /\ BagIn(StatusRequest(c, [sceneID |-> last'.args.sceneID,
                                           cb |-> "search"]), requests')
          /\ (last'.op = "getSceneStatus" /\ last'.args.status = "READY") =>
               latestImage' = last'.args.mapID ]_vars

\* two cycles returned the same scene id; the newer chain observed READY
\* first, the older chain's READY was handled last and decides latestImage
C7_Witness ==
  /\ Len(chains) = 2
  /\ chains[1].scene = chains[2].scene
  /\ chains[2].ready \in MapIDs
  /\ Handled("READY")
  /\ last.chain = 1
  /\ last.args.mapID # chains[2].ready
  /\ latestImage = chains[1].ready

(***************************************************************************)
(* C8.  Within one chain the checks are sequential: a chain has at most    *)
(* one item outstanding, be it its search, an in-flight status request or  *)
(* an armed re-check timer.                                                *)
(***************************************************************************)
C8_OneOutstandingItemPerChain ==
  \A c \in 1..Len(chains) : Outstanding(c) <= 1

\* a re-check timer fired: its chain has the status request in flight and no
\* timer armed, while another chain waits on its own timer
C8_Witness ==
  /\ last.op = "setTimeout"
  /\ InFlight(last.chain, "status") = 1
  /\ TimersOf(last.chain) = 0
  /\ \E d \in 1..Len(chains) : d # last.chain /\ TimersOf(d) = 1

(***************************************************************************)
(* C9.  One search cycle is started at process start, and each tick of the *)
(* search interval starts exactly one more: it is enabled whatever the     *)
(* earlier chains are doing (up to the bound on cycles), it adds one       *)
(* search request and leaves every other request, every armed timer,       *)
(* latestImage and the earlier chains as they were.                        *)
(***************************************************************************)
C9_TickStartsCycleCancelsNothing ==
  /\ (requests = SetToBag({SearchRequest(1)}) /\ Len(chains) = 1)
  /\ []((running /\ Len(chains) < MaxChains) => ENABLED SearchTick)
  /\ [][ (Len(chains') # Len(chains) \/ last'.op = "setInterval") =>
          /\ last'.op = "setInterval"
          /\ Len(chains') = Len(chains) + 1
          /\ requests' = requests (+) SetToBag({SearchRequest(Len(chains) + 1)})
          /\ timers' = timers
          /\ latestImage' = latestImage
          /\ \A c \in 1..Len(chains) : chains'[c] = chains[c] ]_vars

\* a cycle was started while the earlier chain had a re-check timer armed
C9_Witness ==
  /\ last.op = "setInterval"
  /\ last.chain = 2
  /\ TimersOf(1) = 1
  /\ InFlight(2, "search") = 1

(***************************************************************************)
(* C10.  As claimed: all status requests in flight and all re-check timers *)
(* armed at the same moment are for the same scene id.                     *)
(***************************************************************************)
Active == Pending("status") \cup BagToSet(timers)

C10_OneSceneTrackedAtATime ==
  \A x \in Active : \A y \in Active : x.sceneID = y.sceneID

(***************************************************************************)
(* C10, amended.  Each chain tracks exactly one scene id, the one its own  *)
(* search returned: every status request in flight and every timer armed   *)
(* carries the scene id of its chain.  Chains of different search cycles   *)
(* may track different scene ids at the same moment.                       *)
(***************************************************************************)
C10_OneScenePerChain ==
  \A x \in Active :
    /\ x.sceneID \in SceneIDs
    /\ x.sceneID = chains[x.chain].scene

\* two chains are polling at the same moment, for different scene ids
C10_Witness ==
  \E x \in Active : \E y \in Active :
    /\ x.chain # y.chain
    /\ x.sceneID # y.sceneID
    /\ x.sceneID = chains[x.chain].scene
    /\ y.sceneID = chains[y.chain].scene

(***************************************************************************)
(* C11.  A publish is fire-and-forget: whatever its response (success,     *)
(* non-success or network error) the callback only writes to the console.  *)
(* The step removes that publish request and nothing else: every timer     *)
(* stays armed (and can fire), no status request is added or removed,      *)
(* latestImage is unchanged and the process keeps running.                 *)
(***************************************************************************)
C11_PublishOutcomeIsIgnored ==
  [][ last'.op = "publishScene" =>
        /\ timers' = timers
        /\ latestImage' = latestImage
        /\ running'
        /\ chains' = chains
        /\ \E req \in Pending("publish") :
             /\ req.chain = last'.chain
             /\ requests' = requests (-) SetToBag({req})
        /\ last'.eff.log =
             IF last'.resp.err # null \/ last'.resp.statusCode # 200
             THEN <<"error: Received a non-200 status code.">>
             ELSE <<"info: Image successfully queued for publishing.">>
        /\ timers # EmptyBag => ENABLED TimerFires ]_vars

\* a publish failed while the re-check of its chain was still armed
C11_Witness ==
  /\ last.op = "publishScene"
  /\ last.resp.err # null \/ last.resp.statusCode # 200
  /\ TimersOf(last.chain) = 1
  /\ chains[last.chain].published

(***************************************************************************)
(* C12.  When handleSceneStatus is handed a status outside READY,          *)
(* REQUESTED and NOT_YET_REQUESTED it logs 'Unhandled scene status' and    *)
(* the chain stops: the step only removes the chain's status request (no   *)
(* publish, no status check), arms no timer, leaves latestImage and every  *)
(* other chain's requests and timers as they were, and the process keeps   *)
(* running.                                                                *)
(***************************************************************************)
KnownStatus == {"READY", "REQUESTED", "NOT_YET_REQUESTED"}

\* the last step handed handleSceneStatus a status outside the known ones
UnknownStatusHandled ==
  /\ last.op = "getSceneStatus"
  /\ ~last.args.thrown
  /\ last.args.err = null
  /\ last.args.status \notin KnownStatus

C12_UnknownStatusStopsChain ==
  [][ UnknownStatusHandled' =>
        /\ last'.eff.log = Checked \o <<"error: Unhandled scene status">>
        /\ timers' = timers
        /\ latestImage' = latestImage
        /\ running'
        /\ \E req \in Pending("status") :
             /\ req.chain = last'.chain
             /\ requests' = requests (-) SetToBag({req})
        /\ \A c \in 1..Len(chains) : last'.chain = c => Outstanding(c)' = 0 ]_vars

\* a chain stopped on an unknown status while the other chain goes on polling
C12_Witness ==
  /\ UnknownStatusHandled
  /\ Outstanding(last.chain) = 0
  /\ \E d \in 1..Len(chains) : d # last.chain /\ Outstanding(d) = 1

(***************************************************************************)
(* C13.  As claimed: a status check that fails (network error or           *)
(* non-success response) is handed to the callback as an error and logged  *)
(* as that error, and it ends only its own chain: the step removes the     *)
(* chain's status request and adds nothing, arms no timer, leaves          *)
(* latestImage unchanged and the process running.                          *)
(***************************************************************************)
\* the last step answered a status check with a network error or a
\* non-success response: getSceneStatus calls back without a status
FailedStatusCheck ==
  /\ last.op = "getSceneStatus"
  /\ ~last.args.thrown
  /\ last.args.status = null

C13_FailedStatusCheckIsReportedAsError ==
  [][ FailedStatusCheck' =>
        /\ last'.args.err # null
        /\ last'.eff.log = <<"error: err">>
        /\ timers' = timers
        /\ latestImage' = latestImage
        /\ running'
        /\ \E req \in Pending("status") :
             /\ req.chain = last'.chain
             /\ requests' = requests (-) SetToBag({req}) ]_vars

SearchSucceeded(c) == c <= Len(chains) /\ chains[c].scene # nullID

\* the last step answered a status check of chain c
Answered(c) == last.op = "getSceneStatus" /\ last.chain = c
\* ... with a network error or a non-success response
AnsweredFailure(c) ==
  Answered(c) /\ ~last.args.thrown /\ last.args.status = null
\* ... with something else than READY
AnsweredNotReady(c) == Answered(c) /\ ~Handled("READY")
\* ... with READY, and latestImage is the map id of the answer
SetsLatestImage(c) ==
  Answered(c) /\ Handled("READY") /\ latestImage = last.args.mapID

C15_ReadyEventuallyCached ==
  \A c \in 1..MaxChains :
    ( /\ <>SearchSucceeded(c)
      /\ []~AnsweredFailure(c)
      /\ <>[]~AnsweredNotReady(c) )
    => <>SetsLatestImage(c)

(***************************************************************************)
(* C16.  As claimed (under fair firing of timers and delivery of           *)
(* responses): whenever a status check of a chain is answered REQUESTED or *)
(* NOT_YET_REQUESTED, the chain eventually has another status check in     *)
(* flight; no count of re-checks and no timeout ends the chain.            *)
(***************************************************************************)
\* the last step answered a status check of chain c with REQUESTED or
\* NOT_YET_REQUESTED
AnsweredPending(c) ==
  Answered(c) /\ (Handled("REQUESTED") \/ Handled("NOT_YET_REQUESTED"))

C16_PollingChainNeverExpires ==
  \A c \in 1..MaxChains :
    [](AnsweredPending(c) => <>(c <= Len(chains) /\ InFlight(c, "status") = 1))

(***************************************************************************)
(* C17.  Publish is issued only from the NOT_YET_REQUESTED branch, once    *)
(* per observation: a step adds a publish request exactly when it handles  *)
(* a status check answered NOT_YET_REQUESTED, and then it adds one, whose  *)
(* form carries the scene id of the chain that was answered.  Nothing      *)
(* remembers an earlier publish, so a scene tracked by two chains is       *)
(* published by each of them.                                              *)
(***************************************************************************)
C17_OnePublishPerNotYetRequested ==
  [][ /\ PublishInFlight' > PublishInFlight => Handled("NOT_YET_REQUESTED")'
      /\ Handled("NOT_YET_REQUESTED")' =>
            \A c \in 1..Len(chains) : last'.chain = c =>
              /\ last'.eff.publish = <<publishScene(chains[c].scene)>>
              /\ InFlight(c, "publish")' = InFlight(c, "publish") + 1
              /\ PublishInFlight' = PublishInFlight + 1 ]_vars

\* two chains track the same scene and the second has just published it
\* again, after the first one's publish was answered
C17_Witness ==
  /\ Handled("NOT_YET_REQUESTED")
  /\ \E d \in 1..Len(chains) :
       /\ d # last.chain
       /\ chains[d].published
       /\ chains[d].scene = chains[last.chain].scene
       /\ InFlight(d, "publish") = 0

(***************************************************************************)
(* C18.  In every reachable state latestImage is empty, and then no READY  *)
(* answer has been handled, or it is a map id some chain was answered      *)
(* READY with; right after a READY answer it is the map id of that answer, *)
(* and it changes in no other step, so it is the map id of the most recent *)
(* READY answer.  No step sets it back to empty; a page request shows it   *)
(* and leaves it alone.                                                    *)
(***************************************************************************)
\* the map ids of the READY answers handled so far
ReadyMapIDs == { chains[c].ready : c \in 1..Len(chains) } \ {null}

C18_LatestImageIsLastReadyMapID ==
  /\ [](/\ latestImage = undefined <=> ReadyMapIDs = {}
        /\ latestImage # undefined => latestImage \in ReadyMapIDs \cap MapIDs
        /\ Handled("READY") => latestImage = last.args.mapID
        /\ last.op = "app.get" => last.args.mapID = latestImage)
  /\ [][ /\ latestImage' # latestImage =>
             Handled("READY")' /\ latestImage' = last'.args.mapID
         /\ latestImage # undefined => latestImage' # undefined ]_vars

\* a page is requested after two chains were answered READY with different
\* map ids
C18_Witness ==
  /\ last.op = "app.get"
  /\ last.args.mapID = latestImage
  /\ Cardinality(ReadyMapIDs) = 2

(***************************************************************************)
(* C19.  A chain's scene id is fixed for its whole life: once the search   *)
(* has returned it, it never changes, and every status check in flight,    *)
(* every armed re-check and every publish of the chain carries it, the     *)
(* re-checks armed by statusCallback (which takes the scene id from the    *)
(* arguments getSceneStatus calls back with) included.                     *)
(***************************************************************************)
C19_ChainKeepsItsSceneID ==
  /\ [](/\ \A r \in BagToSet(requests) :
             /\ r.kind = "status" => r.sceneID = chains[r.chain].scene
             /\ r.kind = "publish" => r.formData.sceneID = chains[r.chain].scene
        /\ \A t \in BagToSet(timers) : t.sceneID = chains[t.chain].scene)
  /\ [][ \A c \in 1..Len(chains) :
           chains[c].scene # nullID => chains'[c].scene = chains[c].scene ]_vars

\* a re-check, answered REQUESTED through statusCallback (the chain had been
\* answered NOT_YET_REQUESTED before), armed the next re-check
C19_Witness ==
  /\ Handled("REQUESTED")
  /\ chains[last.chain].published
  /\ chains[last.chain].scene # nullID
  /\ \E t \in BagToSet(timers) :
       t.chain = last.chain /\ t.sceneID = chains[last.chain].scene

(***************************************************************************)
(* C20.  When a listing returned with a success response holds several     *)
(* entries with the configured method code, getSceneStatus decides on the  *)
(* first of them among the first `count` results: READY with its map_id    *)
(* when it is ready, REQUESTED when it is not, whatever the later matching *)
(* entries say; when all of them lie at index >= count they are ignored    *)
(* and the answer is NOT_YET_REQUESTED.                                    *)
(***************************************************************************)
\* getSceneStatus was called on a success response with several matching
\* entries
SeveralMatches ==
  /\ probe.called
  /\ probe.resp.err = null /\ probe.resp.statusCode = 200
  /\ Cardinality(Matching(probe.resp.body.results)) >= 2

C20_FirstOfSeveralMatchesDecides ==
  SeveralMatches =>
    LET data == probe.resp.body
        seen == { i \in Matching(data.results) : i <= data.count }
    IN
    IF seen = {}
    THEN probe.out = Call(null, "NOT_YET_REQUESTED", null, probe.sceneID)
    ELSE LET first == CHOOSE i \in seen : \A j \in seen : i <= j IN
         probe.out =
           IF data.results[first].ready
           THEN Call(null, "READY", data.results[first].map_id, probe.sceneID)
           ELSE Call(null, "REQUESTED", null, probe.sceneID)

\* every matching entry lies at index >= count, one of them ready, and the
\* answer is NOT_YET_REQUESTED
C20_Witness ==
  /\ SeveralMatches
  /\ \A i \in Matching(probe.resp.body.results) : i > probe.resp.body.count
  /\ \E i \in Matching(probe.resp.body.results) : probe.resp.body.results[i].ready
  /\ probe.out.status = "NOT_YET_REQUESTED"

=============================================================================
